---------------------------- MODULE Spec2Model ----------------------------
(***************************************************************************)
(* Model of the tmux-op project browser (crates/apps/tmux-op).             *)
(*                                                                         *)
(* Selection engine: src/ui.rs, struct App and the interactive loop run(). *)
(* Strings are sequences of one-character strings; indices into the        *)
(* project list are 0-based as in the code, so project idx is              *)
(* projects[idx + 1].  An Option<T> is a sequence of length at most one.   *)
(***************************************************************************)
EXTENDS Integers, Sequences, FiniteSets, TLC

VARIABLES
    projects,          \* App.projects: Vec<ProjectInfo>, fixed after App::new
    selected,          \* App.selected: usize
    search_active,     \* App.search_active: bool
    search_query,      \* App.search_query: String
    filtered_indices,  \* App.filtered_indices: Vec<usize>
    status,            \* run(): "running" inside the loop, "ok"/"err" its result
    launched,          \* the project records open_in_tmux handed to tmux
    key,               \* the event the last loop iteration read
    prev               \* the App fields as they were before that event

vars == <<projects, selected, search_active, search_query, filtered_indices,
          status, launched, key, prev>>

(* The state of the discovery that runs before the browser (main.rs:59-67, *)
(* project_finder.rs).                                                     *)
VARIABLES
    tree,              \* the directory tree on disk, unchanged while scanning
    root_dirs,         \* find_project_files(root_dirs): config.search_paths
    walk_state,        \* per root: "todo", "walked" (paths collected), "done"
    project_paths,     \* per root: project_paths, the manifest paths of its walk
    read_done,         \* per root: the indices of project_paths already processed
    records,           \* per root, per path: the Option<ProjectInfo> of its closure
    diagnostics,       \* what the closures wrote to stderr
    find_status,       \* "scanning", then "Ok" once find_project_files returned
    found,             \* the Vec<ProjectInfo> it returned
    scan,              \* 1 in the first scan of the tree, 2 in the second
    first_found        \* what the first scan returned

finder_vars == <<tree, root_dirs, walk_state, project_paths, read_done, records,
                 diagnostics, find_status, found, scan, first_found>>

(* The browser is modelled on its own, after discovery: these variables    *)
(* then do not change.                                                     *)
DiscoveryOver ==
    /\ tree = [dirs |-> {}]
    /\ root_dirs = <<>>
    /\ walk_state = <<>>
    /\ project_paths = <<>>
    /\ read_done = <<>>
    /\ records = <<>>
    /\ diagnostics = {}
    /\ find_status = "Ok"
    /\ found = <<>>
    /\ scan = 1
    /\ first_found = <<>>

(* The terminal around the browser (ui.rs:291-298, pub fn main).           *)
VARIABLES
    main_pc,           \* ui::main: "start", "clear", "run", "returned"
    terminal,          \* "cooked" as the shell left it, "raw" after ratatui::init
    restores           \* the number of calls of ratatui::restore

main_vars == <<main_pc, terminal, restores>>

(* The browser is modelled on its own from App::new on: the terminal was   *)
(* initialized and cleared, and these variables then do not change.        *)
TerminalReady ==
    /\ main_pc = "run"
    /\ terminal = "raw"
    /\ restores = 0

(* The project-creation wizard (new_project.rs), a run of its own. *)
VARIABLES
    project_name,        \* CreateApp.project_name: String
    selected_language,   \* CreateApp.selected_language: String
    edit_mode,           \* CreateApp.edit_mode: "Name" or "Language"
    filtered_languages,  \* CreateApp.filtered_languages: Vec<String>
    wizard_status,       \* run_ui: "none", "running", "returned", "exited", "err"
    wizard_key           \* the event the last iteration of run_ui read

wizard_vars == <<project_name, selected_language, edit_mode, filtered_languages,
                 wizard_status, wizard_key>>

(* No wizard runs in a run of the browser: these variables do not change.  *)
NoWizard ==
    /\ project_name = <<>>
    /\ selected_language = <<>>
    /\ edit_mode = "Name"
    /\ filtered_languages = <<>>
    /\ wizard_status = "none"
    /\ wizard_key = [code |-> "None", ch |-> ""]

---------------------------------------------------------------------------
(* Bounds of the model.                                                    *)

MaxProjects == 2
MaxQueryLen == 2

(* The characters a key event can carry and the project records the scan   *)
(* can have produced.                                                      *)
KeyChars == {"a", "A", "c", "q", "j", "k", "/"}

(* KeyModifiers of an event.  Only a character key's modifiers are read by  *)
(* a match arm, so the other key codes are modelled without modifiers.     *)
Mods == {"NONE", "CONTROL"}

ProjectPool ==
    { [name |-> <<"a", "c">>, language |-> "RUST",    directory |-> <<"/", "q">>],
      [name |-> <<"A">>,      language |-> "UNKNOWN", directory |-> <<"/", "A">>],
      [name |-> <<"c", "a">>, language |-> "GO",      directory |-> <<"/", "j">>] }

RECURSIVE SeqsUpTo(_, _)
SeqsUpTo(S, n) ==
    IF n = 0 THEN {<<>>}
    ELSE LET shorter == SeqsUpTo(S, n - 1)
         IN  shorter \cup {Append(s, x) : s \in {t \in shorter : Len(t) = n - 1}, x \in S}

ProjectLists == SeqsUpTo(ProjectPool, MaxProjects)

---------------------------------------------------------------------------
(* Option helpers.                                                         *)

None == <<>>
Some(x) == <<x>>

OptMax(a, b) ==
    IF a = None THEN b
    ELSE IF b = None THEN a
    ELSE IF b[1] > a[1] THEN b ELSE a

---------------------------------------------------------------------------
(* SkimMatcherV2::default(), the matcher App::new constructs and           *)
(* filter_projects calls.  The crate is a dependency of the repository;    *)
(* what is modelled is the behaviour of its default configuration: smart   *)
(* case (the match is case-sensitive exactly when the pattern holds an     *)
(* upper-case ASCII letter, and ignores ASCII case otherwise), a match     *)
(* exists exactly when the pattern is a subsequence of the choice, and the *)
(* score is the best alignment under the default score configuration.      *)

ScoreMatch == 16
GapStart == 0 - 3
GapExtension == 0 - 1
BonusFirstCharMultiplier == 2
BonusHead == ScoreMatch \div 2
BonusBreak == (ScoreMatch \div 2) + GapExtension
BonusCamel == (ScoreMatch \div 2) + 2 * GapExtension
BonusConsecutive == 0 - (GapStart + GapExtension)
PenaltyCaseMismatch == GapExtension * 2

UpperChars == {"A"}
Separators == {" ", "/"}

to_ascii_lowercase(c) == IF c = "A" THEN "a" ELSE c

contains_upper(pattern) == \E i \in 1..Len(pattern) : pattern[i] \in UpperChars

(* Mutant: the smart-case test inverted. *)
is_case_sensitive_inverted(pattern) == ~contains_upper(pattern)

is_case_sensitive(pattern) == contains_upper(pattern)

char_equal(a, b, case_sensitive) ==
    IF case_sensitive THEN a = b
    ELSE to_ascii_lowercase(a) = to_ascii_lowercase(b)

(* Bonus of matching the choice's character at position j, from the role   *)
(* of the character before it.                                             *)
in_place_bonus(choice, j) ==
    IF j = 1 THEN BonusHead
    ELSE IF choice[j - 1] \in Separators /\ choice[j] \notin Separators THEN BonusBreak
    ELSE IF choice[j - 1] \notin UpperChars \cup Separators /\ choice[j] \in UpperChars
         THEN BonusCamel
    ELSE 0

(* Score of matching pattern[i] at choice[j] when pattern[i-1] was matched *)
(* at choice[last] (last = 0: nothing matched yet).                        *)
match_score(choice, pattern, i, j, last) ==
    ScoreMatch
    + (IF choice[j] # pattern[i] THEN PenaltyCaseMismatch ELSE 0)
    + in_place_bonus(choice, j) * (IF i = 1 THEN BonusFirstCharMultiplier ELSE 1)
    + (IF last = 0 THEN 0
       ELSE IF j = last + 1 THEN BonusConsecutive
       ELSE GapStart + GapExtension * (j - last - 2))

(* Best score of aligning pattern[i..] inside choice[j..]; None when       *)
(* pattern[i..] is no subsequence of choice[j..].                          *)
RECURSIVE align(_, _, _, _, _, _)
align(choice, pattern, case_sensitive, i, j, last) ==
    IF i > Len(pattern) THEN Some(0)
    ELSE IF j > Len(choice) THEN None
    ELSE LET skip == align(choice, pattern, case_sensitive, i, j + 1, last)
             rest == align(choice, pattern, case_sensitive, i + 1, j + 1, j)
             take == IF char_equal(choice[j], pattern[i], case_sensitive) /\ rest # None
                     THEN Some(match_score(choice, pattern, i, j, last) + rest[1])
                     ELSE None
         IN  OptMax(skip, take)

(* Mutant: a matcher that always ignores case. *)
fuzzy_match_ignore_case(choice, pattern) ==
    IF pattern = <<>> THEN Some(0)
    ELSE align(choice, pattern, FALSE, 1, 1, 0)

(* FuzzyMatcher::fuzzy_match(choice, pattern) -> Option<i64> *)
fuzzy_match(choice, pattern) ==
    IF pattern = <<>> THEN Some(0)
    ELSE align(choice, pattern, is_case_sensitive(pattern), 1, 1, 0)

---------------------------------------------------------------------------
(* impl App                                                                *)

(* (0..n).collect::<Vec<usize>>() *)
Range0(n) == [i \in 1..n |-> i - 1]

(* format!("{} {}", proj.name, proj.directory) *)
search_text(proj) == proj.name \o <<" ">> \o proj.directory

(* .iter().enumerate().filter_map(..).collect(): the (score, idx) pairs of *)
(* the projects that match, in list order.                                 *)
RECURSIVE scored_from(_, _, _)
scored_from(projs, query, idx) ==
    IF idx >= Len(projs) THEN <<>>
    ELSE LET m == fuzzy_match(search_text(projs[idx + 1]), query)
         IN  (IF m = None THEN <<>> ELSE << <<m[1], idx>> >>)
             \o scored_from(projs, query, idx + 1)

(* Mutant: an insertion that puts x in front of the elements of equal      *)
(* score, as an unstable sort may.                                         *)
RECURSIVE insert_sorted_unstable(_, _)
insert_sorted_unstable(sorted, x) ==
    IF sorted = <<>> THEN <<x>>
    ELSE IF sorted[1][1] > x[1]
         THEN <<sorted[1]>> \o insert_sorted_unstable(Tail(sorted), x)
    ELSE <<x>> \o sorted

(* One insertion of a stable sort under the comparator b.0.cmp(&a.0): x    *)
(* goes behind every element whose score is greater than or equal to its   *)
(* own.                                                                    *)
RECURSIVE insert_sorted(_, _)
insert_sorted(sorted, x) ==
    IF sorted = <<>> THEN <<x>>
    ELSE IF sorted[1][1] >= x[1] THEN <<sorted[1]>> \o insert_sorted(Tail(sorted), x)
    ELSE <<x>> \o sorted

(* scored_indices.sort_by(|a, b| b.0.cmp(&a.0)): slice::sort_by is stable. *)
RECURSIVE sort_by_score_desc(_)
sort_by_score_desc(scored) ==
    IF scored = <<>> THEN <<>>
    ELSE insert_sorted(sort_by_score_desc(SubSeq(scored, 1, Len(scored) - 1)),
                       scored[Len(scored)])

(* Mutant: filter_projects without the repair of selected. *)
filter_projects_keeps_selected(projs, query, sel) ==
    IF query = <<>>
    THEN [filtered_indices |-> Range0(Len(projs)), selected |-> sel]
    ELSE LET scored == sort_by_score_desc(scored_from(projs, query, 0))
         IN  [filtered_indices |-> [i \in 1..Len(scored) |-> scored[i][2]],
              selected |-> sel]

(* Mutant: filter_projects that selects the last match instead of the      *)
(* first.                                                                  *)
filter_projects_selects_last(projs, query, sel) ==
    IF query = <<>>
    THEN [filtered_indices |-> Range0(Len(projs)), selected |-> sel]
    ELSE LET scored == sort_by_score_desc(scored_from(projs, query, 0))
             fi == [i \in 1..Len(scored) |-> scored[i][2]]
         IN  [filtered_indices |-> fi,
              selected |-> IF fi # <<>> THEN fi[Len(fi)] ELSE sel]

(* App::filter_projects: the new filtered_indices and selected. *)
filter_projects(projs, query, sel) ==
    IF query = <<>>
    THEN [filtered_indices |-> Range0(Len(projs)), selected |-> sel]
    ELSE LET scored == sort_by_score_desc(scored_from(projs, query, 0))
             fi == [i \in 1..Len(scored) |-> scored[i][2]]
         IN  [filtered_indices |-> fi,
              selected |-> IF fi # <<>> THEN fi[1] ELSE sel]

(* .iter().position(|&x| x == sel).unwrap_or(0), 0-based *)
position_or_0(fi, sel) ==
    IF \E p \in 1..Len(fi) : fi[p] = sel
    THEN (CHOOSE p \in 1..Len(fi) : fi[p] = sel /\ \A r \in 1..(p - 1) : fi[r] # sel) - 1
    ELSE 0

(* Mutant: next that stops at the last element instead of wrapping. *)
next_no_wrap(fi, sel) ==
    IF fi # <<>>
    THEN LET current_pos == position_or_0(fi, sel)
             next_pos == IF current_pos + 1 < Len(fi) THEN current_pos + 1 ELSE current_pos
         IN  fi[next_pos + 1]
    ELSE sel

(* App::next: the new selected. *)
next(fi, sel) ==
    IF fi # <<>>
    THEN LET current_pos == position_or_0(fi, sel)
             next_pos == (current_pos + 1) % Len(fi)
         IN  fi[next_pos + 1]
    ELSE sel

(* App::previous: the new selected. *)
previous(fi, sel) ==
    IF fi # <<>>
    THEN LET current_pos == position_or_0(fi, sel)
             prev_pos == IF current_pos > 0 THEN current_pos - 1 ELSE Len(fi) - 1
         IN  fi[prev_pos + 1]
    ELSE sel

(* App::open_in_tmux: the project whose directory the tmux commands get,   *)
(* self.projects.get(self.selected).                                       *)
open_in_tmux(projs, sel) ==
    IF sel < Len(projs) THEN Some(projs[sel + 1]) ELSE None

---------------------------------------------------------------------------
(* The interactive loop, fn run.  One action is one iteration: the draw,   *)
(* the blocking event::read and the match arm that handles the event.      *)

Key(code, ch, mods) == [code |-> code, ch |-> ch, mods |-> mods]

(* The App fields the handlers mutate. *)
AppFields ==
    [selected |-> selected, search_active |-> search_active,
     search_query |-> search_query, filtered_indices |-> filtered_indices]

(* App::new *)
Init ==
    /\ projects \in ProjectLists
    /\ selected = 0
    /\ search_active = FALSE
    /\ search_query = <<>>
    /\ filtered_indices = Range0(Len(projects))
    /\ status = "running"
    /\ launched = <<>>
    /\ key = Key("None", "", "NONE")
    /\ prev = [selected |-> 0, search_active |-> FALSE, search_query |-> <<>>,
               filtered_indices |-> Range0(Len(projects))]

(* Bookkeeping of every iteration that reads event k. *)
Read(k) ==
    /\ status = "running"
    /\ key' = k
    /\ prev' = AppFields
    /\ UNCHANGED projects
    /\ UNCHANGED finder_vars
    /\ UNCHANGED wizard_vars
    /\ UNCHANGED main_vars

(* Mutant: Esc leaves search mode but keeps the query. *)
SearchEscKeepsQuery ==
    /\ search_active
    /\ Read(Key("Esc", "", "NONE"))
    /\ search_active' = FALSE
    /\ LET r == filter_projects(projects, search_query, selected)
       IN  /\ filtered_indices' = r.filtered_indices
           /\ selected' = r.selected
    /\ UNCHANGED <<search_query, status, launched>>

(* Mutant: Esc clears the query without the call of filter_projects. *)
SearchEscNoFilter ==
    /\ search_active
    /\ Read(Key("Esc", "", "NONE"))
    /\ search_active' = FALSE
    /\ search_query' = <<>>
    /\ UNCHANGED <<selected, filtered_indices, status, launched>>

(* Search mode, KeyCode::Esc *)
SearchEsc ==
    /\ search_active
    /\ Read(Key("Esc", "", "NONE"))
    /\ search_active' = FALSE
    /\ search_query' = <<>>
    /\ LET r == filter_projects(projects, <<>>, selected)
       IN  /\ filtered_indices' = r.filtered_indices
           /\ selected' = r.selected
    /\ UNCHANGED <<status, launched>>

(* Mutant: backspace_search without the call of filter_projects. *)
SearchBackspaceNoFilter ==
    /\ search_active
    /\ Read(Key("Backspace", "", "NONE"))
    /\ search_query' = IF search_query = <<>> THEN <<>>
                       ELSE SubSeq(search_query, 1, Len(search_query) - 1)
    /\ UNCHANGED <<selected, filtered_indices, search_active, status, launched>>

(* Search mode, KeyCode::Backspace: App::backspace_search *)
SearchBackspace ==
    /\ search_active
    /\ Read(Key("Backspace", "", "NONE"))
    /\ LET q == IF search_query = <<>> THEN <<>>
                ELSE SubSeq(search_query, 1, Len(search_query) - 1)
           r == filter_projects(projects, q, selected)
       IN  /\ search_query' = q
           /\ filtered_indices' = r.filtered_indices
           /\ selected' = r.selected
    /\ UNCHANGED <<search_active, status, launched>>

(* Mutant: the quit arm is tested before the search arm, so that q ends    *)
(* the loop in search mode too.                                            *)
SearchCharQuits ==
    /\ search_active
    /\ Len(search_query) < MaxQueryLen
    /\ \E c \in KeyChars, m \in Mods :
          /\ Read(Key("Char", c, m))
          /\ IF c = "q"
             THEN /\ status' = "ok"
                  /\ UNCHANGED <<search_query, filtered_indices, selected>>
             ELSE LET q == Append(search_query, c)
                      r == filter_projects(projects, q, selected)
                  IN  /\ search_query' = q
                      /\ filtered_indices' = r.filtered_indices
                      /\ selected' = r.selected
                      /\ UNCHANGED status
    /\ UNCHANGED <<search_active, launched>>

(* Search mode, KeyCode::Char(c): App::update_search *)
SearchChar ==
    /\ search_active
    /\ Len(search_query) < MaxQueryLen
    /\ \E c \in KeyChars, m \in Mods :
          /\ Read(Key("Char", c, m))
          /\ LET q == Append(search_query, c)
                 r == filter_projects(projects, q, selected)
             IN  /\ search_query' = q
                 /\ filtered_indices' = r.filtered_indices
                 /\ selected' = r.selected
    /\ UNCHANGED <<search_active, status, launched>>

(* Mutant: a commit with no project at selected is reported as an error. *)
CommitFailsOnNone ==
    LET p == open_in_tmux(projects, selected)
    IN  /\ launched' = launched \o p
        /\ \E spawned \in BOOLEAN :
              status' = IF p # None /\ spawned THEN "ok" ELSE "err"
        /\ UNCHANGED <<selected, search_active, search_query, filtered_indices>>

(* A call of open_in_tmux followed by return: the tmux commands get the    *)
(* selected project's directory and may fail; with no project at selected  *)
(* nothing is spawned and the result is Ok.                                *)
Commit ==
    LET p == open_in_tmux(projects, selected)
    IN  /\ launched' = launched \o p
        /\ \E spawned \in BOOLEAN :
              status' = IF p = None \/ spawned THEN "ok" ELSE "err"
        /\ UNCHANGED <<selected, search_active, search_query, filtered_indices>>

(* Search mode, KeyCode::Enter *)
SearchEnter ==
    /\ search_active
    /\ Read(Key("Enter", "", "NONE"))
    /\ Commit

(* Search mode, every other key code *)
SearchOther ==
    /\ search_active
    /\ \E code \in {"Down", "Up", "Tab"} : Read(Key(code, "", "NONE"))
    /\ UNCHANGED <<selected, search_active, search_query, filtered_indices,
                   status, launched>>

(* Mutant: the quit arm commits the selection before it returns. *)
NavQuitCommits ==
    /\ ~search_active
    /\ \/ \E m \in Mods : Read(Key("Char", "q", m))
       \/ Read(Key("Esc", "", "NONE"))
    /\ Commit

(* Navigation mode, (Char('q'), _) | (Esc, _) *)
NavQuit ==
    /\ ~search_active
    /\ \/ \E m \in Mods : Read(Key("Char", "q", m))
       \/ Read(Key("Esc", "", "NONE"))
    /\ status' = "ok"
    /\ UNCHANGED <<selected, search_active, search_query, filtered_indices, launched>>

(* Navigation mode, (Char('c'), KeyModifiers::CONTROL) *)
NavCtrlC ==
    /\ ~search_active
    /\ Read(Key("Char", "c", "CONTROL"))
    /\ status' = "ok"
    /\ UNCHANGED <<selected, search_active, search_query, filtered_indices, launched>>

(* Navigation mode, (Down | Char('j'), _): App::next *)
NavDown ==
    /\ ~search_active
    /\ \/ Read(Key("Down", "", "NONE"))
       \/ \E m \in Mods : Read(Key("Char", "j", m))
    /\ selected' = next(filtered_indices, selected)
    /\ UNCHANGED <<search_active, search_query, filtered_indices, status, launched>>

(* Navigation mode, (Up | Char('k'), _): App::previous *)
NavUp ==
    /\ ~search_active
    /\ \/ Read(Key("Up", "", "NONE"))
       \/ \E m \in Mods : Read(Key("Char", "k", m))
    /\ selected' = previous(filtered_indices, selected)
    /\ UNCHANGED <<search_active, search_query, filtered_indices, status, launched>>

(* Mutant: entering search mode resets the cursor to the first project. *)
NavSlashResetsCursor ==
    /\ ~search_active
    /\ \E m \in Mods : Read(Key("Char", "/", m))
    /\ search_active' = TRUE
    /\ selected' = 0
    /\ UNCHANGED <<search_query, filtered_indices, status, launched>>

(* Navigation mode, (Char('/'), _) *)
NavSlash ==
    /\ ~search_active
    /\ \E m \in Mods : Read(Key("Char", "/", m))
    /\ search_active' = TRUE
    /\ UNCHANGED <<selected, search_query, filtered_indices, status, launched>>

(* Navigation mode, (Enter, _) *)
NavEnter ==
    /\ ~search_active
    /\ Read(Key("Enter", "", "NONE"))
    /\ Commit

(* Navigation mode, every other key: Backspace, Tab, an unbound character, *)
(* and Char('c') without exactly the CONTROL modifier.                     *)
NavOther ==
    /\ ~search_active
    /\ \/ \E code \in {"Backspace", "Tab"} : Read(Key(code, "", "NONE"))
       \/ \E c \in KeyChars \ {"q", "j", "k", "/", "c"}, m \in Mods :
             Read(Key("Char", c, m))
       \/ \E m \in Mods \ {"CONTROL"} : Read(Key("Char", "c", m))
    /\ UNCHANGED <<selected, search_active, search_query, filtered_indices,
                   status, launched>>

(* event::read() returned an event that is no Event::Key *)
NonKeyEvent ==
    /\ Read(Key("NonKey", "", "NONE"))
    /\ UNCHANGED <<selected, search_active, search_query, filtered_indices,
                   status, launched>>

(* terminal.draw(..)? or event::read()? returned Err *)
IoError ==
    /\ Read(Key("IoError", "", "NONE"))
    /\ status' = "err"
    /\ UNCHANGED <<selected, search_active, search_query, filtered_indices, launched>>

Next ==
    \/ SearchEsc
    \/ SearchBackspace
    \/ SearchChar
    \/ SearchEnter
    \/ SearchOther
    \/ NavQuit
    \/ NavCtrlC
    \/ NavDown
    \/ NavUp
    \/ NavSlash
    \/ NavEnter
    \/ NavOther
    \/ NonKeyEvent
    \/ IoError

(* The browser from App::new on, discovery being over. *)
BrowserInit == Init /\ DiscoveryOver /\ TerminalReady /\ NoWizard

Spec == BrowserInit /\ [][Next]_vars

TypeOK ==
    /\ projects \in ProjectLists
    /\ selected \in Nat
    /\ search_active \in BOOLEAN
    /\ Len(search_query) <= MaxQueryLen
    /\ status \in {"running", "ok", "err"}
    /\ Len(launched) <= 1

---------------------------------------------------------------------------
(* Vocabulary of the properties.                                           *)

NumProjects == Len(projects)
IdentityOrder == Range0(NumProjects)
InOrder(fi, idx) == \E p \in 1..Len(fi) : fi[p] = idx

(* The last iteration handled event code/ch while the App was in search    *)
(* mode (resp. navigation mode).                                           *)
InSearch(code) == prev.search_active /\ key.code = code
InNav(code) == ~prev.search_active /\ key.code = code
InNavChar(c) == InNav("Char") /\ key.ch = c

(* The events that call filter_projects. *)
Reranked == InSearch("Char") \/ InSearch("Backspace") \/ InSearch("Esc")

(* The quit/escape inputs: Esc, q, Ctrl-C. *)
QuitInput ==
    \/ key.code = "Esc"
    \/ key.code = "Char" /\ key.ch = "q"
    \/ key.code = "Char" /\ key.ch = "c" /\ key.mods = "CONTROL"

FoldCase(c) == IF c = "A" THEN "a" ELSE c
HasUpper(s) == \E i \in 1..Len(s) : s[i] # FoldCase(s[i])

(* pat is a subsequence of text, comparing characters with case folded     *)
(* when fold is TRUE and exactly otherwise.                                *)
RECURSIVE IsSubsequence(_, _, _)
IsSubsequence(pat, text, fold) ==
    IF pat = <<>> THEN TRUE
    ELSE IF text = <<>> THEN FALSE
    ELSE IF (IF fold THEN FoldCase(pat[1]) = FoldCase(text[1]) ELSE pat[1] = text[1])
         THEN IsSubsequence(Tail(pat), Tail(text), fold)
    ELSE IsSubsequence(pat, Tail(text), fold)

TextOf(idx) == projects[idx + 1].name \o <<" ">> \o projects[idx + 1].directory
ScoreOf(idx) == fuzzy_match(TextOf(idx), search_query)[1]

(* filtered_indices holds exactly the indices satisfying Matches, once each. *)
ExactlyTheMatches(Matches(_)) ==
    /\ \A idx \in 0..(NumProjects - 1) : InOrder(filtered_indices, idx) <=> Matches(idx)
    /\ \A p \in 1..Len(filtered_indices) :
          /\ filtered_indices[p] \in 0..(NumProjects - 1)
          /\ \A r \in 1..Len(filtered_indices) :
                filtered_indices[p] = filtered_indices[r] => p = r

---------------------------------------------------------------------------
(* C1: in every reachable state, a non-empty filtered_indices contains     *)
(* selected.                                                               *)
C1_CursorInFiltered ==
    filtered_indices # <<>> => InOrder(filtered_indices, selected)

(* A character was typed, the matches are a reordered or proper part of    *)
(* the list and the cursor moved onto one of them.                         *)
C1_Witness ==
    /\ InSearch("Char")
    /\ filtered_indices # <<>>
    /\ filtered_indices # IdentityOrder
    /\ selected # prev.selected
    /\ InOrder(filtered_indices, selected)

(* C2: after a re-rank that left filtered_indices empty although there are *)
(* projects, Enter hands no project to the session launch.                 *)
C2_EmptyFilterUnselectable ==
    (InSearch("Enter") /\ prev.search_query # <<>> /\ prev.filtered_indices = <<>>
        /\ NumProjects > 0)
    => launched = <<>>

(* C3 as stated: after every re-rank with a non-empty result, selected is  *)
(* the first element, also when the query became empty.                    *)
C3_Original ==
    (Reranked /\ filtered_indices # <<>>) => selected = filtered_indices[1]

(* C3 amended: after a re-rank that leaves a non-empty query and a         *)
(* non-empty filtered_indices, selected is its first element; a re-rank    *)
(* that leaves the query empty restores the identity order and leaves      *)
(* selected as it was.                                                     *)
C3_RerankSelectsFirst ==
    Reranked =>
        /\ (search_query # <<>> /\ filtered_indices # <<>>)
              => selected = filtered_indices[1]
        /\ search_query = <<>>
              => (selected = prev.selected /\ filtered_indices = IdentityOrder)

(* A typed character moved the cursor to a top-ranked match that is not    *)
(* the first project.                                                      *)
C3_Witness ==
    /\ InSearch("Char")
    /\ Len(filtered_indices) >= 2
    /\ selected = filtered_indices[1]
    /\ selected # 0
    /\ selected # prev.selected

(* C4 as stated: for a non-empty query filtered_indices holds exactly the  *)
(* projects whose text contains the query as a case-insensitive            *)
(* subsequence.                                                            *)
C4_Original ==
    search_query # <<>> =>
        LET Matches(idx) == IsSubsequence(search_query, TextOf(idx), TRUE)
        IN  ExactlyTheMatches(Matches)

(* C4 amended: for a non-empty query filtered_indices holds exactly the    *)
(* projects whose text contains the query as a subsequence, ignoring ASCII *)
(* case when the query has no upper-case letter and comparing exactly when *)
(* it has one; each once.                                                  *)
C4_ExactlySmartCaseMatches ==
    search_query # <<>> =>
        LET Matches(idx) == IsSubsequence(search_query, TextOf(idx), ~HasUpper(search_query))
        IN  ExactlyTheMatches(Matches)

(* A query with an upper-case letter keeps one project and drops another   *)
(* that matches it when case is ignored.                                   *)
C4_Witness ==
    /\ search_query # <<>>
    /\ HasUpper(search_query)
    /\ filtered_indices # <<>>
    /\ \E idx \in 0..(NumProjects - 1) :
          /\ ~InOrder(filtered_indices, idx)
          /\ IsSubsequence(search_query, TextOf(idx), TRUE)

(* C5: for a non-empty query filtered_indices is in descending score, and  *)
(* projects of equal score keep their order of the project list.           *)
C5_SortedStable ==
    search_query # <<>> =>
        \A p, r \in 1..Len(filtered_indices) :
            p < r =>
                \/ ScoreOf(filtered_indices[p]) > ScoreOf(filtered_indices[r])
                \/ /\ ScoreOf(filtered_indices[p]) = ScoreOf(filtered_indices[r])
                   /\ filtered_indices[p] < filtered_indices[r]

(* Two different projects tie on a typed query. *)
C5_Witness ==
    /\ InSearch("Char")
    /\ Len(filtered_indices) = 2
    /\ projects[1] # projects[2]
    /\ ScoreOf(filtered_indices[1]) = ScoreOf(filtered_indices[2])

(* C6: appending a character to a non-empty query never lengthens          *)
(* filtered_indices.                                                       *)
C6_AppendNarrows ==
    (InSearch("Char") /\ prev.search_query # <<>>)
    => Len(filtered_indices) <= Len(prev.filtered_indices)

(* A second character dropped some matches and kept others. *)
C6_Witness ==
    /\ InSearch("Char")
    /\ prev.search_query # <<>>
    /\ filtered_indices # <<>>
    /\ Len(filtered_indices) < Len(prev.filtered_indices)

(* C7: whenever the query is empty, filtered_indices is the identity order *)
(* 0..n-1.                                                                 *)
C7_EmptyQueryIdentity ==
    search_query = <<>> => filtered_indices = IdentityOrder

(* Backspace emptied a query whose matches were not the identity order. *)
C7_Witness ==
    /\ InSearch("Backspace")
    /\ search_query = <<>>
    /\ prev.search_query # <<>>
    /\ prev.filtered_indices # IdentityOrder
    /\ NumProjects >= 2

(* The iteration just handled Down or j (resp. Up or k) in navigation mode: *)
(* the calls of App::next and App::previous.                               *)
Advanced == InNav("Down") \/ InNavChar("j")
Retreated == InNav("Up") \/ InNavChar("k")

Unmoved ==
    /\ search_query = prev.search_query
    /\ filtered_indices = prev.filtered_indices
    /\ search_active = prev.search_active

(* C8: next moves selected to the element after it in filtered_indices and *)
(* previous to the element before it, wrapping at both ends; with an empty *)
(* filtered_indices both change nothing; neither changes the query,        *)
(* filtered_indices or search_active.                                      *)
C8_AdvanceRetreatCyclic ==
    (Advanced \/ Retreated) =>
        LET n == Len(filtered_indices)
        IN  /\ Unmoved
            /\ status = "running"
            /\ launched = <<>>
            /\ n = 0 => selected = prev.selected
            /\ n > 0 =>
                  \E p \in 1..n :
                      /\ filtered_indices[p] = prev.selected
                      /\ Advanced => selected = filtered_indices[IF p = n THEN 1 ELSE p + 1]
                      /\ Retreated => selected = filtered_indices[IF p = 1 THEN n ELSE p - 1]

(* next wrapped from the last of at least two elements to the first. *)
C8_Witness ==
    /\ Advanced
    /\ Len(filtered_indices) >= 2
    /\ prev.selected = filtered_indices[Len(filtered_indices)]
    /\ selected = filtered_indices[1]

(* C9 as stated: Esc, q or Ctrl-C in any state ends the loop on that event *)
(* and launches nothing.                                                   *)
C9_Original ==
    QuitInput => (status # "running" /\ launched = <<>>)

(* C9 amended: in navigation mode Esc, q or Ctrl-C ends the loop on that   *)
(* event with Ok and launches nothing; in search mode the same inputs      *)
(* launch nothing either but the loop goes on (Esc leaves search mode, q   *)
(* and c are typed into the query).                                        *)
C9_QuitInNavigation ==
    QuitInput =>
        /\ launched = <<>>
        /\ ~prev.search_active => (status = "ok" /\ selected = prev.selected /\ Unmoved)
        /\ prev.search_active => status = "running"

(* Ctrl-C ended the loop after the cursor had been moved. *)
C9_Witness ==
    /\ InNavChar("c")
    /\ key.mods = "CONTROL"
    /\ status = "ok"
    /\ selected # 0
    /\ launched = <<>>

(* C10: Esc in search mode leaves search_active false, the query empty and *)
(* filtered_indices the identity order, whatever the query was.            *)
C10_ExitSearchRestores ==
    InSearch("Esc") =>
        /\ ~search_active
        /\ search_query = <<>>
        /\ filtered_indices = IdentityOrder

(* Esc cleared a query whose matches were not the identity order. *)
C10_Witness ==
    /\ InSearch("Esc")
    /\ prev.search_query # <<>>
    /\ prev.filtered_indices # IdentityOrder
    /\ filtered_indices = IdentityOrder
    /\ NumProjects >= 2

(* C11: '/' in navigation mode sets search_active and leaves the query,   *)
(* filtered_indices, selected and the project list as they were.           *)
C11_EnterSearchFrame ==
    [][(~search_active /\ key'.code = "Char" /\ key'.ch = "/")
          => (/\ search_active'
              /\ UNCHANGED <<search_query, filtered_indices, selected, projects>>
              /\ UNCHANGED <<status, launched>>)]_vars

(* Search mode was entered with the cursor on a project other than the     *)
(* first, and the cursor stayed there.                                     *)
C11_Witness ==
    /\ InNavChar("/")
    /\ search_active
    /\ selected # 0
    /\ selected = prev.selected
    /\ filtered_indices = prev.filtered_indices

(* C12: with an empty project list Enter, in either mode and after any     *)
(* keys, launches nothing and ends the loop with Ok.                       *)
C12_EmptyListCommit ==
    (NumProjects = 0 /\ key.code = "Enter") => (launched = <<>> /\ status = "ok")

(* Enter in search mode, after a query was typed, with no projects. *)
C12_Witness ==
    /\ NumProjects = 0
    /\ InSearch("Enter")
    /\ search_query # <<>>
    /\ launched = <<>>
    /\ status = "ok"

---------------------------------------------------------------------------
(* Discovery: fn find_project_files (src/project_finder.rs) and its caller *)
(* main (src/main.rs).  A path is the sequence of its components; a        *)
(* directory tree is a record of its directories, the directories whose    *)
(* listing fails, its ignore files and its manifest files.                 *)

MaxRoots == 2

IGNORED_DIRS == {"node_modules", "build", "target", "dist", "out"}

ManifestName == ".dexproject"

(* The names that begin with a dot. *)
HiddenNames == {".h", ".dexproject"}

UNKNOWN == <<"U", "N", "K", "N", "O", "W", "N">>

TreeDirs ==
    { <<"r">>, <<"r", "p">>, <<"r", "build">>, <<"r", "build", "x">>, <<"r", ".h">> }

(* What a manifest file holds: whether read_to_string succeeds, and what   *)
(* serde_json::from_str::<ProjectConfig> makes of the text (None: an Err). *)
Manifest(read_ok, parsed) == [read_ok |-> read_ok, parsed |-> parsed]
ProjectConfig(name, language) == [name |-> name, language |-> language]

EmptyManifest == Manifest(TRUE, Some(ProjectConfig(None, None)))

ManifestPool ==
    { Manifest(FALSE, None),
      Manifest(TRUE, None),
      EmptyManifest,
      Manifest(TRUE, Some(ProjectConfig(Some("App One"), Some(<<"g", "o">>)))) }

(* The ways the tree outside the manifest of r/p varies: a directory that  *)
(* cannot be listed, a .gitignore or a .ignore file in r that names p.     *)
TreeFlavours ==
    { [unreadable |-> {}, ignore_files |-> {}],
      [unreadable |-> {<<"r", ".h">>}, ignore_files |-> {}],
      [unreadable |-> {},
       ignore_files |-> {[dir |-> <<"r">>, file |-> ".gitignore", names |-> {"p"}]}],
      [unreadable |-> {},
       ignore_files |-> {[dir |-> <<"r">>, file |-> ".ignore", names |-> {"p"}]}] }

Trees ==
    { [dirs |-> TreeDirs,
       unreadable |-> f.unreadable,
       ignore_files |-> f.ignore_files,
       manifests |-> (<<"r", "p">> :> m)
                     @@ (<<"r", "build", "x">> :> EmptyManifest)
                     @@ (<<"r", ".h">> :>
                            Manifest(TRUE, Some(ProjectConfig(None, Some(<<"G", "o">>)))))]
      : f \in TreeFlavours, m \in ManifestPool }

(* The configured search paths: r, a directory nested in it, a directory   *)
(* whose own name is in IGNORED_DIRS, and a path that does not exist.      *)
RootPool == { <<"r">>, <<"r", "p">>, <<"r", "build">>, <<"gone">> }

RootLists == SeqsUpTo(RootPool, MaxRoots)

---------------------------------------------------------------------------
(* Paths.                                                                  *)

IsPrefix(a, b) == Len(a) <= Len(b) /\ SubSeq(b, 1, Len(a)) = a

(* Path::parent *)
parent(path) == SubSeq(path, 1, Len(path) - 1)

(* Path::file_name().unwrap_or_default() *)
file_name(path) == IF path = <<>> THEN "" ELSE path[Len(path)]

(* str::to_uppercase *)
to_uppercase_char(c) ==
    IF c = "g" THEN "G" ELSE IF c = "o" THEN "O" ELSE c

(* Mutant: the language is stored as it was authored. *)
to_uppercase_missing(str) == str

to_uppercase(str) == [i \in 1..Len(str) |-> to_uppercase_char(str[i])]

(* Option::unwrap_or *)
unwrap_or(opt, default) == IF opt = None THEN default ELSE opt[1]

---------------------------------------------------------------------------
(* ignore::WalkBuilder as find_project_files configures it: hidden(false)  *)
(* and git_ignore(false); every other standard filter keeps its default,   *)
(* so .ignore files (also those of the root's parents) are honoured.       *)

walker ==
    [hidden |-> FALSE, git_ignore |-> FALSE, ignore |-> TRUE, parents |-> TRUE]

(* Mutant: a filter_entry closure that keeps every entry. *)
filter_entry_keeps_all(path) == TRUE

(* The closure of filter_entry: TRUE keeps the entry. *)
filter_entry(path) == file_name(path) \notin IGNORED_DIRS

(* The ignore files the walk of root consults for an entry at path. *)
ignore_files_for(t, root, path) ==
    { g \in t.ignore_files :
        /\ IsPrefix(g.dir, parent(path))
        /\ walker.parents \/ IsPrefix(root, g.dir)
        /\ \/ g.file = ".ignore" /\ walker.ignore
           \/ g.file = ".gitignore" /\ walker.git_ignore }

(* Walk::skip_entry: the root itself (depth 0) is never skipped. *)
skip_entry(t, root, path) ==
    /\ path # root
    /\ \/ walker.hidden /\ file_name(path) \in HiddenNames
       \/ \E g \in ignore_files_for(t, root, path) : file_name(path) \in g.names
       \/ ~filter_entry(path)

(* The manifest paths the walk of root yields at and below directory dir,  *)
(* after .filter_map(Result::ok) and the filter on the file name.          *)
RECURSIVE walk(_, _, _)
walk(t, root, dir) ==
    IF skip_entry(t, root, dir) \/ dir \in t.unreadable THEN {}
    ELSE LET file == Append(dir, ManifestName)
             here == IF dir \in DOMAIN t.manifests /\ ~skip_entry(t, root, file)
                     THEN {file} ELSE {}
             subdirs == {d \in t.dirs : Len(d) = Len(dir) + 1 /\ IsPrefix(dir, d)}
         IN  here \cup UNION {walk(t, root, d) : d \in subdirs}

(* Mutant: a root that is no directory yields what the first configured    *)
(* tree directory holds, as if the failure spilled over to another root.   *)
walk_root_no_check(t, root) ==
    IF root \in t.dirs THEN walk(t, root, root) ELSE walk(t, <<"r">>, <<"r">>)

(* A root that is no directory yields one Err, which Result::ok drops. *)
walk_root(t, root) ==
    IF root \in t.dirs THEN walk(t, root, root) ELSE {}

(* The orders in which a walk can yield a set of paths. *)
Orderings(S) ==
    { q \in [1..Cardinality(S) -> S] : \A a, b \in 1..Cardinality(S) : q[a] = q[b] => a = b }

(* The closure of the inner filter_map for one manifest path: the record   *)
(* (None: dropped) and the diagnostics written to stderr.                  *)
resolve(t, path) ==
    LET m == t.manifests[parent(path)]
    IN  IF ~m.read_ok THEN [record |-> None, diagnostics |-> {}]
        ELSE IF m.parsed = None
             THEN [record |-> None,
                   diagnostics |-> {[path |-> path, cause |-> "Failed to parse JSON"]}]
        ELSE LET config == m.parsed[1]
                 project_dir == parent(path)
                 default_name == file_name(project_dir)
             IN  [record |-> Some([name |-> unwrap_or(config.name, default_name),
                                   language |->
                                       to_uppercase(unwrap_or(config.language, UNKNOWN)),
                                   directory |-> project_dir]),
                  diagnostics |-> {}]

---------------------------------------------------------------------------
(* find_project_files: root_dirs.par_iter().flat_map(..).collect().  Each  *)
(* root is one rayon task that walks the root, then processes the paths of *)
(* that walk in parallel and joins them; the outer collect joins the       *)
(* roots.  One action is one such step of one task.                        *)

NumRoots == Len(root_dirs)
Roots == 1..NumRoots

(* main before ui::main: there is no App yet. *)
BrowserIdle ==
    /\ projects = <<>>
    /\ selected = 0
    /\ search_active = FALSE
    /\ search_query = <<>>
    /\ filtered_indices = <<>>
    /\ status = "idle"
    /\ launched = <<>>
    /\ key = Key("None", "", "NONE")
    /\ prev = [selected |-> 0, search_active |-> FALSE, search_query |-> <<>>,
               filtered_indices |-> <<>>]
    /\ main_pc = "start"
    /\ terminal = "cooked"
    /\ restores = 0

(* The call find_project_files(&config.search_paths), main.rs:60 *)
FinderInit ==
    /\ tree \in Trees
    /\ root_dirs \in RootLists
    /\ walk_state = [i \in Roots |-> "todo"]
    /\ project_paths = [i \in Roots |-> <<>>]
    /\ read_done = [i \in Roots |-> {}]
    /\ records = [i \in Roots |-> <<>>]
    /\ diagnostics = {}
    /\ find_status = "scanning"
    /\ found = <<>>
    /\ scan = 1
    /\ first_found = <<>>
    /\ BrowserIdle
    /\ NoWizard

(* The walk of root i: let project_paths: Vec<_> = walker...collect() *)
WalkRoot(i) ==
    /\ find_status = "scanning"
    /\ walk_state[i] = "todo"
    /\ \E q \in Orderings(walk_root(tree, root_dirs[i])) :
          /\ project_paths' = [project_paths EXCEPT ![i] = q]
          /\ records' = [records EXCEPT ![i] = [k \in 1..Len(q) |-> None]]
    /\ walk_state' = [walk_state EXCEPT ![i] = "walked"]
    /\ UNCHANGED <<tree, root_dirs, read_done, diagnostics, find_status, found,
                   scan, first_found>>
    /\ UNCHANGED vars
    /\ UNCHANGED main_vars
    /\ UNCHANGED wizard_vars

(* The closure of project_paths.par_iter().filter_map(..) for path k of    *)
(* root i: read_to_string, from_str, ProjectInfo.                          *)
ReadManifest(i, k) ==
    /\ find_status = "scanning"
    /\ walk_state[i] = "walked"
    /\ k \in (1..Len(project_paths[i])) \ read_done[i]
    /\ LET r == resolve(tree, project_paths[i][k])
       IN  /\ records' = [records EXCEPT ![i][k] = r.record]
           /\ diagnostics' = diagnostics \cup r.diagnostics
    /\ read_done' = [read_done EXCEPT ![i] = @ \cup {k}]
    /\ UNCHANGED <<tree, root_dirs, walk_state, project_paths, find_status, found,
                   scan, first_found>>
    /\ UNCHANGED vars
    /\ UNCHANGED main_vars
    /\ UNCHANGED wizard_vars

(* Mutant: the join of root i does not wait for all of its closures. *)
FinishRootEarly(i) ==
    /\ find_status = "scanning"
    /\ walk_state[i] = "walked"
    /\ walk_state' = [walk_state EXCEPT ![i] = "done"]
    /\ UNCHANGED <<tree, root_dirs, project_paths, read_done, records, diagnostics,
                   find_status, found, scan, first_found>>
    /\ UNCHANGED vars
    /\ UNCHANGED main_vars
    /\ UNCHANGED wizard_vars

(* .collect::<Vec<_>>() of root i: the join of its closures. *)
FinishRoot(i) ==
    /\ find_status = "scanning"
    /\ walk_state[i] = "walked"
    /\ read_done[i] = 1..Len(project_paths[i])
    /\ walk_state' = [walk_state EXCEPT ![i] = "done"]
    /\ UNCHANGED <<tree, root_dirs, project_paths, read_done, records, diagnostics,
                   find_status, found, scan, first_found>>
    /\ UNCHANGED vars
    /\ UNCHANGED main_vars
    /\ UNCHANGED wizard_vars

(* The records of the outer collect: per root in the order of root_dirs,   *)
(* per path in the order of project_paths, the dropped ones left out.      *)
RECURSIVE flatten(_)
flatten(options) ==
    IF options = <<>> THEN <<>> ELSE options[1] \o flatten(Tail(options))

collect(recs) == flatten([i \in 1..Len(recs) |-> flatten(recs[i])])

(* Mutant: the outer collect returns as soon as one root is done. *)
ReturnProjectsEarly ==
    /\ find_status = "scanning"
    /\ \E i \in Roots : walk_state[i] = "done"
    /\ found' = collect(records)
    /\ find_status' = "Ok"
    /\ UNCHANGED <<tree, root_dirs, walk_state, project_paths, read_done, records,
                   diagnostics, scan, first_found>>
    /\ UNCHANGED vars
    /\ UNCHANGED main_vars
    /\ UNCHANGED wizard_vars

(* .collect() of the outer par_iter and Ok(projects) *)
ReturnProjects ==
    /\ find_status = "scanning"
    /\ \A i \in Roots : walk_state[i] = "done"
    /\ found' = collect(records)
    /\ find_status' = "Ok"
    /\ UNCHANGED <<tree, root_dirs, walk_state, project_paths, read_done, records,
                   diagnostics, scan, first_found>>
    /\ UNCHANGED vars
    /\ UNCHANGED main_vars
    /\ UNCHANGED wizard_vars

(* The program run a second time on the unchanged tree with the same       *)
(* search paths.                                                           *)
ScanAgain ==
    /\ find_status = "Ok"
    /\ status = "idle"
    /\ scan = 1
    /\ scan' = 2
    /\ first_found' = found
    /\ walk_state' = [i \in Roots |-> "todo"]
    /\ project_paths' = [i \in Roots |-> <<>>]
    /\ read_done' = [i \in Roots |-> {}]
    /\ records' = [i \in Roots |-> <<>>]
    /\ diagnostics' = {}
    /\ find_status' = "scanning"
    /\ found' = <<>>
    /\ UNCHANGED <<tree, root_dirs>>
    /\ UNCHANGED vars
    /\ UNCHANGED main_vars
    /\ UNCHANGED wizard_vars

(* let _ = ui::main(projects), main.rs:67: App::new on the returned list. *)
UiMain ==
    /\ find_status = "Ok"
    /\ status = "idle"
    /\ projects' = found
    /\ selected' = 0
    /\ search_active' = FALSE
    /\ search_query' = <<>>
    /\ filtered_indices' = Range0(Len(found))
    /\ status' = "running"
    /\ UNCHANGED <<launched, key, prev>>
    /\ main_pc' = "run"
    /\ terminal' = "raw"
    /\ UNCHANGED restores
    /\ UNCHANGED finder_vars
    /\ UNCHANGED wizard_vars

FinderNext ==
    \/ \E i \in Roots : WalkRoot(i)
    \/ \E i \in Roots : \E k \in 1..Len(project_paths[i]) : ReadManifest(i, k)
    \/ \E i \in Roots : FinishRoot(i)
    \/ ReturnProjects
    \/ ScanAgain
    \/ UiMain

SpecFinder == FinderInit /\ [][FinderNext]_<<vars, finder_vars, main_vars>>

---------------------------------------------------------------------------
(* Vocabulary of the discovery properties, stated on the tree itself.      *)

PathsOf(i) == {project_paths[i][k] : k \in 1..Len(project_paths[i])}
DirectoriesOf(list) == {list[a].directory : a \in 1..Len(list)}
ManifestDirs == DOMAIN tree.manifests
Exists(root) == root \in tree.dirs

(* Some directory on the way from root (exclusive) down to d (inclusive)   *)
(* has a name of the ignore set.                                           *)
IgnoredBelow(root, d) == \E j \in (Len(root) + 1)..Len(d) : d[j] \in IGNORED_DIRS

(* Every directory from root down to d can be listed. *)
ReadableFrom(root, d) ==
    \A j \in Len(root)..Len(d) : SubSeq(d, 1, j) \notin tree.unreadable

(* A .ignore file at or above its parent names some directory on the way   *)
(* from root (exclusive) down to d.                                        *)
NamedByIgnoreFile(root, d) ==
    \E j \in (Len(root) + 1)..Len(d), g \in tree.ignore_files :
        /\ g.file = ".ignore"
        /\ IsPrefix(g.dir, SubSeq(d, 1, j - 1))
        /\ d[j] \in g.names

(* The walk of root reaches the manifest in directory d. *)
Reaches(root, d) ==
    /\ Exists(root)
    /\ d \in ManifestDirs
    /\ IsPrefix(root, d)
    /\ ReadableFrom(root, d)
    /\ ~IgnoredBelow(root, d)
    /\ ~NamedByIgnoreFile(root, d)

Resolvable(d) == tree.manifests[d].read_ok /\ tree.manifests[d].parsed # None

ExpectedDirs(root) == {d \in ManifestDirs : Reaches(root, d) /\ Resolvable(d)}

RECURSIVE SumOver(_, _)
SumOver(n, f) == IF n = 0 THEN 0 ELSE f[n] + SumOver(n - 1, f)

(* C13: the returned records have pairwise distinct directories, also when *)
(* one root equals or lies inside another.                                 *)
C13_DistinctDirectories ==
    find_status = "Ok" =>
        \A a, b \in 1..Len(found) : found[a].directory = found[b].directory => a = b

(* The tree with every subtree removed whose top directory lies strictly   *)
(* below root and has a name of the ignore set.                            *)
WithoutIgnored(root) ==
    LET kept == {d \in tree.dirs : ~(IsPrefix(root, d) /\ IgnoredBelow(root, d))}
    IN  [tree EXCEPT !.dirs = kept,
                     !.manifests = [d \in kept \cap ManifestDirs |-> tree.manifests[d]]]

(* C14 as stated: no returned manifest lies anywhere below a directory     *)
(* with a name of the ignore set, and the manifest of a sibling of such a  *)
(* directory is returned.                                                  *)
C14_Original ==
    \A i \in Roots : walk_state[i] # "todo" =>
        /\ \A path \in PathsOf(i) : \A j \in 1..(Len(path) - 1) : path[j] \notin IGNORED_DIRS
        /\ \A g \in tree.dirs, d \in ManifestDirs :
              (/\ IsPrefix(root_dirs[i], parent(g))
               /\ file_name(g) \in IGNORED_DIRS
               /\ parent(d) = parent(g)
               /\ file_name(d) \notin IGNORED_DIRS)
              => Append(d, ManifestName) \in PathsOf(i)

(* C14 amended: no manifest returned by the walk of a root lies below a    *)
(* directory that is strictly below that root and has a name of the ignore *)
(* set; the pruning removes nothing else: the walk returns what it returns *)
(* on the tree without those subtrees.                                     *)
C14_PrunedBelowRoot ==
    \A i \in Roots : walk_state[i] # "todo" =>
        /\ \A path \in PathsOf(i) : ~IgnoredBelow(root_dirs[i], parent(path))
        /\ PathsOf(i) = walk_root(WithoutIgnored(root_dirs[i]), root_dirs[i])

(* The walk of r left out the manifest below r/build and returned the      *)
(* manifest of its sibling r/.h.                                           *)
C14_Witness ==
    \E i \in Roots :
        /\ walk_state[i] # "todo"
        /\ root_dirs[i] = <<"r">>
        /\ <<"r", "build", "x">> \in ManifestDirs
        /\ <<"r", "build", "x", ".dexproject">> \notin PathsOf(i)
        /\ <<"r", ".h", ".dexproject">> \in PathsOf(i)

(* C15: a manifest whose read or parse fails yields no record and a        *)
(* diagnostic with its path and the cause, and the other manifests are     *)
(* resolved.                                                               *)
C15_FailureDiagnosed ==
    find_status = "Ok" =>
        \A i \in Roots : \A k \in 1..Len(project_paths[i]) :
            LET path == project_paths[i][k]
            IN  IF Resolvable(parent(path))
                THEN records[i][k] # None
                ELSE /\ records[i][k] = None
                     /\ \E dg \in diagnostics : dg.path = path

(* C16: a root that does not exist and a directory that cannot be listed   *)
(* contribute nothing, every root contributes what the tree holds under it *)
(* whatever the other roots are, and the result is never an error.         *)
C16_FailuresContained ==
    /\ find_status \in {"scanning", "Ok"}
    /\ \A i \in Roots : walk_state[i] # "todo" =>
          /\ ~Exists(root_dirs[i]) => project_paths[i] = <<>>
          /\ \A path \in PathsOf(i) : ReadableFrom(root_dirs[i], parent(path))
          /\ \A d \in ManifestDirs :
                Reaches(root_dirs[i], d) => Append(d, ManifestName) \in PathsOf(i)
    /\ find_status = "Ok" =>
          /\ DirectoriesOf(found) = UNION {ExpectedDirs(root_dirs[i]) : i \in Roots}
          /\ Len(found) =
                SumOver(NumRoots, [i \in Roots |-> Cardinality(ExpectedDirs(root_dirs[i]))])

(* A scan of a missing root and of r, in which r/.h cannot be listed,      *)
(* returned the record of r/p.                                             *)
C16_Witness ==
    /\ find_status = "Ok"
    /\ root_dirs = << <<"gone">>, <<"r">> >>
    /\ tree.unreadable = {<<"r", ".h">>}
    /\ DirectoriesOf(found) = {<<"r", "p">>}

(* Uppercase of the letters the manifests use, written out. *)
UpperOf == ("g" :> "G") @@ ("o" :> "O")

IsUppercased(lang, declared) ==
    /\ Len(lang) = Len(declared)
    /\ \A n \in 1..Len(declared) :
          lang[n] = IF declared[n] \in DOMAIN UpperOf THEN UpperOf[declared[n]]
                    ELSE declared[n]

(* C17: the record of a manifest that was read and parsed has the declared *)
(* name or the base name of the manifest's directory, the declared         *)
(* language in uppercase or UNKNOWN, and the manifest's directory.         *)
C17_RecordFields ==
    \A i \in Roots : \A k \in read_done[i] :
        LET d == parent(project_paths[i][k])
            m == tree.manifests[d]
        IN  Resolvable(d) =>
              /\ records[i][k] # None
              /\ LET rec == records[i][k][1]
                     config == m.parsed[1]
                 IN  /\ rec.directory = d
                     /\ rec.name = IF config.name = None THEN d[Len(d)]
                                   ELSE config.name[1]
                     /\ IF config.language = None THEN rec.language = UNKNOWN
                        ELSE IsUppercased(rec.language, config.language[1])

(* A scan returned a record with a declared name and the language go in    *)
(* uppercase, and a record with both defaults.                             *)
C17_Witness ==
    /\ find_status = "Ok"
    /\ \E a \in 1..Len(found) :
          found[a] = [name |-> "App One", language |-> <<"G", "O">>,
                      directory |-> <<"r", "p">>]
    /\ \E a \in 1..Len(found) :
          found[a] = [name |-> "x", language |-> UNKNOWN,
                      directory |-> <<"r", "build", "x">>]

(* C18: the second scan of the unchanged tree returns the same set of      *)
(* directories as the first, whatever the order of the steps of either.    *)
C18_RescanSameDirectories ==
    (scan = 2 /\ find_status = "Ok") => DirectoriesOf(found) = DirectoriesOf(first_found)

(* Two scans returned the same two directories in different orders. *)
C18_Witness ==
    /\ scan = 2
    /\ find_status = "Ok"
    /\ found # first_found
    /\ Cardinality(DirectoriesOf(found)) = 2
    /\ DirectoriesOf(found) = DirectoriesOf(first_found)

AllRead(i) == read_done[i] = 1..Len(project_paths[i])

(* C19 as stated: no manifest is read before the walks of all roots have   *)
(* completed, and the browser starts only after all reads have completed.  *)
C19_Original ==
    /\ (\E i \in Roots : read_done[i] # {}) => \A j \in Roots : walk_state[j] # "todo"
    /\ status # "idle" => \A i \in Roots : walk_state[i] # "todo" /\ AllRead(i)

(* C19 amended: the manifests of a root are read only after the walk of    *)
(* that root; a root is joined only after all its reads; the scan returns  *)
(* only after all roots are joined; the browser starts only after the scan *)
(* has returned, on the list it returned.                                  *)
C19_PerRootBarrier ==
    /\ \A i \in Roots : read_done[i] # {} => walk_state[i] # "todo"
    /\ \A i \in Roots : walk_state[i] = "done" => AllRead(i)
    /\ find_status = "Ok" => \A i \in Roots : walk_state[i] = "done"
    /\ status # "idle" => (find_status = "Ok" /\ projects = found)

(* The browser has started on two records that came from two roots. *)
C19_Witness ==
    /\ status = "running"
    /\ NumRoots = 2
    /\ \A i \in Roots : read_done[i] # {} /\ AllRead(i)
    /\ Len(projects) = 2

(* C20: a manifest under a root that exists, in a directory that can be    *)
(* listed, is returned by the walk of that root if and only if no          *)
(* directory between the root and the manifest has a name of the ignore    *)
(* set; hidden directories and ignore files make no difference.            *)
C20_OnlyIgnoreNames ==
    \A i \in Roots : walk_state[i] # "todo" =>
        \A d \in ManifestDirs :
            (Exists(root_dirs[i]) /\ IsPrefix(root_dirs[i], d)
                /\ ReadableFrom(root_dirs[i], d))
            => (Append(d, ManifestName) \in PathsOf(i) <=> ~IgnoredBelow(root_dirs[i], d))

(* The key codes of event::Event::Key, as opposed to the other outcomes of *)
(* event::read().                                                          *)
IsKeyEvent == key.code \notin {"None", "NonKey", "IoError"}

(* C21: in search mode every character key, q, j, k and / included, is     *)
(* appended to the query and re-ranks, and the loop goes on in search      *)
(* mode; a key that is none of Esc, Backspace, a character or Enter leaves *)
(* the state as it was; of all keys only Enter ends the loop.              *)
C21_SearchModeKeys ==
    /\ InSearch("Char") =>
          /\ search_query = Append(prev.search_query, key.ch)
          /\ search_active
          /\ status = "running"
          /\ launched = <<>>
          /\ LET Matches(idx) ==
                     IsSubsequence(search_query, TextOf(idx), ~HasUpper(search_query))
             IN  ExactlyTheMatches(Matches)
    /\ (prev.search_active /\ IsKeyEvent
           /\ key.code \notin {"Esc", "Backspace", "Char", "Enter"}) =>
          /\ AppFields = prev
          /\ status = "running"
          /\ launched = <<>>
    /\ (prev.search_active /\ IsKeyEvent /\ status # "running") => key.code = "Enter"

(* q was typed in search mode after another character: it is the second   *)
(* character of the query and the loop goes on.                            *)
C21_Witness ==
    /\ InSearch("Char")
    /\ key.ch = "q"
    /\ Len(search_query) = 2
    /\ search_query[2] = "q"
    /\ search_active
    /\ status = "running"

(* C22: outside search mode the query is empty and filtered_indices is the *)
(* identity order.                                                         *)
C22_NavigationUnfiltered ==
    ~search_active => (search_query = <<>> /\ filtered_indices = IdentityOrder)

(* Esc left a search whose two-character query matched no project: the    *)
(* query is empty again and the full list is shown.                        *)
C22_Witness ==
    /\ ~search_active
    /\ InSearch("Esc")
    /\ Len(prev.search_query) = 2
    /\ prev.filtered_indices = <<>>
    /\ NumProjects >= 1
    /\ search_query = <<>>
    /\ filtered_indices = IdentityOrder

---------------------------------------------------------------------------
(* ui::main (ui.rs:291-298): ratatui::init, terminal.clear()?, App::new,   *)
(* run, ratatui::restore.  A failing ratatui::init panics and is no run    *)
(* that initialized the terminal, so the steps start with its success.     *)

(* The call ui::main(projects): no terminal and no App yet. *)
MainInit ==
    /\ projects \in ProjectLists
    /\ selected = 0
    /\ search_active = FALSE
    /\ search_query = <<>>
    /\ filtered_indices = <<>>
    /\ status = "idle"
    /\ launched = <<>>
    /\ key = Key("None", "", "NONE")
    /\ prev = [selected |-> 0, search_active |-> FALSE, search_query |-> <<>>,
               filtered_indices |-> <<>>]
    /\ DiscoveryOver
    /\ NoWizard
    /\ main_pc = "start"
    /\ terminal = "cooked"
    /\ restores = 0

(* let mut terminal = ratatui::init(); *)
TerminalInit ==
    /\ main_pc = "start"
    /\ main_pc' = "clear"
    /\ terminal' = "raw"
    /\ UNCHANGED restores
    /\ UNCHANGED vars
    /\ UNCHANGED finder_vars
    /\ UNCHANGED wizard_vars

(* terminal.clear()?; let app = App::new(projects);  An Err of clear is     *)
(* returned by the ? at once; otherwise the App is built and run starts.   *)
TerminalClear ==
    /\ main_pc = "clear"
    /\ \E cleared \in BOOLEAN :
          IF cleared
          THEN /\ main_pc' = "run"
               /\ status' = "running"
               /\ filtered_indices' = Range0(Len(projects))
               /\ prev' = [prev EXCEPT !.filtered_indices = Range0(Len(projects))]
          ELSE /\ main_pc' = "returned"
               /\ status' = "err"
               /\ UNCHANGED <<filtered_indices, prev>>
    /\ UNCHANGED <<projects, selected, search_active, search_query, launched, key>>
    /\ UNCHANGED <<terminal, restores>>
    /\ UNCHANGED finder_vars
    /\ UNCHANGED wizard_vars

(* ratatui::restore(); app_result: after run returned Ok or Err. *)
Restore ==
    /\ main_pc = "run"
    /\ status \in {"ok", "err"}
    /\ terminal' = "cooked"
    /\ restores' = restores + 1
    /\ main_pc' = "returned"
    /\ UNCHANGED vars
    /\ UNCHANGED finder_vars
    /\ UNCHANGED wizard_vars

MainNext ==
    \/ TerminalInit
    \/ TerminalClear
    \/ Next
    \/ Restore

SpecMain == MainInit /\ [][MainNext]_<<vars, finder_vars, main_vars>>

(* C23: a run of ui::main that initialized the terminal has restored it    *)
(* exactly once when it returns, and never restores it twice.              *)
C23_RestoredOnReturn ==
    /\ restores <= 1
    /\ main_pc = "returned" => (terminal = "cooked" /\ restores = 1)

---------------------------------------------------------------------------
(* The project-creation wizard: new_project.rs, struct CreateApp and the   *)
(* loop run_ui.                                                            *)

MaxNameLen == 1
MaxLanguageLen == 2

(* The characters the wizard's keys carry. *)
WizardChars == {"g", "r", "u", "U", "n", "x"}

(* languages::LANGUAGES: the first name of every entry, in order. *)
LANGUAGES ==
    << <<"C">>,
       <<"C", "+", "+">>,
       <<"C", "#">>,
       <<"T", "y", "p", "e", "s", "c", "r", "i", "p", "t">>,
       <<"J", "a", "v", "a", "s", "c", "r", "i", "p", "t">>,
       <<"G", "o">>,
       <<"R", "u", "s", "t">> >>

(* CreateApp.languages: the names plus "UNKNOWN", new_project.rs:33-38 *)
languages == Append(LANGUAGES, UNKNOWN)

(* str::to_lowercase on the letters that occur *)
to_lowercase_char(c) ==
    LET lower == ("C" :> "c") @@ ("T" :> "t") @@ ("J" :> "j") @@ ("G" :> "g")
                 @@ ("R" :> "r") @@ ("U" :> "u") @@ ("N" :> "n") @@ ("K" :> "k")
                 @@ ("O" :> "o") @@ ("W" :> "w")
    IN  IF c \in DOMAIN lower THEN lower[c] ELSE c

to_lowercase(str) == [i \in 1..Len(str) |-> to_lowercase_char(str[i])]

(* str::contains: pat is a contiguous piece of str *)
contains(str, pat) ==
    \E i \in 0..(Len(str) - Len(pat)) : SubSeq(str, i + 1, i + Len(pat)) = pat

(* Iterator::filter(..).collect() over a Vec, order kept *)
RECURSIVE filter_collect(_, _)
filter_collect(list, query) ==
    IF list = <<>> THEN <<>>
    ELSE LET rest == filter_collect(Tail(list), query)
         IN  IF contains(to_lowercase(Head(list)), query) THEN <<Head(list)>> \o rest
             ELSE rest

(* CreateApp::filter_languages: the new filtered_languages *)
filter_languages(typed) == filter_collect(languages, to_lowercase(typed))

(* String::pop *)
pop(str) == IF str = <<>> THEN <<>> ELSE SubSeq(str, 1, Len(str) - 1)

WizardKey(code, ch) == [code |-> code, ch |-> ch]

(* create_project up to CreateApp::new (new_project.rs:26-47, 103): the    *)
(* name is the base name of the current directory, or empty.               *)
WizardInit ==
    /\ project_name \in {<<>>, <<"x">>}
    /\ selected_language = <<>>
    /\ edit_mode = "Name"
    /\ filtered_languages = languages
    /\ wizard_status = "running"
    /\ wizard_key = WizardKey("None", "")
    /\ BrowserIdle
    /\ DiscoveryOver

(* Bookkeeping of every iteration of run_ui that reads event k. *)
WizardRead(k) ==
    /\ wizard_status = "running"
    /\ wizard_key' = k
    /\ UNCHANGED vars
    /\ UNCHANGED finder_vars
    /\ UNCHANGED main_vars

(* (_, KeyCode::Tab) *)
WizardTab ==
    /\ WizardRead(WizardKey("Tab", ""))
    /\ edit_mode' = IF edit_mode = "Name" THEN "Language" ELSE "Name"
    /\ UNCHANGED <<project_name, selected_language, filtered_languages, wizard_status>>

(* (EditMode::Name, KeyCode::Char(c)) *)
NameChar ==
    /\ edit_mode = "Name"
    /\ Len(project_name) < MaxNameLen
    /\ \E c \in WizardChars :
          /\ WizardRead(WizardKey("Char", c))
          /\ project_name' = Append(project_name, c)
    /\ UNCHANGED <<selected_language, edit_mode, filtered_languages, wizard_status>>

(* (EditMode::Name, KeyCode::Backspace) *)
NameBackspace ==
    /\ edit_mode = "Name"
    /\ WizardRead(WizardKey("Backspace", ""))
    /\ project_name' = pop(project_name)
    /\ UNCHANGED <<selected_language, edit_mode, filtered_languages, wizard_status>>

(* (EditMode::Language, KeyCode::Char(c)) *)
LanguageChar ==
    /\ edit_mode = "Language"
    /\ Len(selected_language) < MaxLanguageLen
    /\ \E c \in WizardChars :
          /\ WizardRead(WizardKey("Char", c))
          /\ selected_language' = Append(selected_language, c)
          /\ filtered_languages' = filter_languages(Append(selected_language, c))
    /\ UNCHANGED <<project_name, edit_mode, wizard_status>>

(* (EditMode::Language, KeyCode::Backspace) *)
LanguageBackspace ==
    /\ edit_mode = "Language"
    /\ WizardRead(WizardKey("Backspace", ""))
    /\ selected_language' = pop(selected_language)
    /\ filtered_languages' = filter_languages(pop(selected_language))
    /\ UNCHANGED <<project_name, edit_mode, wizard_status>>

(* Mutant: Enter accepts the typed text whenever some language matches it. *)
LanguageEnterAcceptsTyped ==
    /\ edit_mode = "Language"
    /\ WizardRead(WizardKey("Enter", ""))
    /\ wizard_status' = IF filtered_languages # <<>> THEN "returned" ELSE "running"
    /\ UNCHANGED <<project_name, selected_language, edit_mode, filtered_languages>>

(* (EditMode::Language, KeyCode::Enter); true makes run_ui return the pair *)
(* (project_name, selected_language).                                      *)
LanguageEnter ==
    /\ edit_mode = "Language"
    /\ WizardRead(WizardKey("Enter", ""))
    /\ IF Len(filtered_languages) = 1
       THEN /\ selected_language' = filtered_languages[1]
            /\ wizard_status' = "returned"
       ELSE IF selected_language = UNKNOWN
       THEN /\ wizard_status' = "returned"
            /\ UNCHANGED selected_language
       ELSE UNCHANGED <<selected_language, wizard_status>>
    /\ UNCHANGED <<project_name, edit_mode, filtered_languages>>

(* (EditMode::Name, KeyCode::Enter) *)
NameEnter ==
    /\ edit_mode = "Name"
    /\ WizardRead(WizardKey("Enter", ""))
    /\ edit_mode' = "Language"
    /\ UNCHANGED <<project_name, selected_language, filtered_languages, wizard_status>>

(* (_, KeyCode::Esc) => std::process::exit(0) *)
WizardEsc ==
    /\ WizardRead(WizardKey("Esc", ""))
    /\ wizard_status' = "exited"
    /\ UNCHANGED <<project_name, selected_language, edit_mode, filtered_languages>>

(* Every other key code, and an event that is no key *)
WizardOther ==
    /\ \E code \in {"Up", "Down", "NonKey"} : WizardRead(WizardKey(code, ""))
    /\ UNCHANGED <<project_name, selected_language, edit_mode, filtered_languages,
                   wizard_status>>

(* terminal.draw(..)? or event::read()? returned Err *)
WizardIoError ==
    /\ WizardRead(WizardKey("IoError", ""))
    /\ wizard_status' = "err"
    /\ UNCHANGED <<project_name, selected_language, edit_mode, filtered_languages>>

WizardNext ==
    \/ WizardTab
    \/ NameChar
    \/ NameBackspace
    \/ LanguageChar
    \/ LanguageBackspace
    \/ LanguageEnter
    \/ NameEnter
    \/ WizardEsc
    \/ WizardOther
    \/ WizardIoError

SpecWizard == WizardInit /\ [][WizardNext]_<<vars, finder_vars, main_vars, wizard_vars>>

IsKnownLanguage(l) == \E n \in 1..Len(languages) : languages[n] = l

(* C24: Enter in Language mode makes run_ui return exactly when one        *)
(* language is left in filtered_languages or the typed text is UNKNOWN;    *)
(* run_ui returns on no other event, and the language it returns is one of *)
(* languages; Enter in Name mode switches to Language mode and returns     *)
(* nothing.                                                                *)
C24_EnterCompletes ==
    [][/\ (wizard_key'.code = "Enter" /\ edit_mode = "Language") =>
             /\ wizard_status' \in {"running", "returned"}
             /\ wizard_status' = "returned" <=>
                   (Len(filtered_languages) = 1 \/ selected_language = UNKNOWN)
       /\ wizard_status' = "returned" =>
             /\ wizard_key'.code = "Enter"
             /\ edit_mode = "Language"
             /\ IsKnownLanguage(selected_language')
             /\ UNCHANGED project_name
       /\ (wizard_key'.code = "Enter" /\ edit_mode = "Name") =>
             /\ wizard_status' = "running"
             /\ edit_mode' = "Language"
             /\ UNCHANGED <<project_name, selected_language, filtered_languages>>
      ]_wizard_vars

(* The wizard returned Rust for the typed text "ru" after Enter had moved  *)
(* it from the name to the language.                                       *)
C24_Witness ==
    /\ wizard_status = "returned"
    /\ wizard_key.code = "Enter"
    /\ edit_mode = "Language"
    /\ selected_language = <<"R", "u", "s", "t">>
    /\ filtered_languages = << <<"R", "u", "s", "t">> >>

=============================================================================
